---- MODULE Spec2Model ----
(***************************************************************************)
(* State-machine model of the pki.io x509 package: CA documents            *)
(* (x509/ca.go), leaf Certificate documents (x509/certificate.go), the     *)
(* serial allocator, and the CSR documents consumed by CA.Sign.            *)
(*                                                                         *)
(* Go strings that the code computes are modelled by what the code does:   *)
(*   - a PEM text is a record with the block label and the armoured        *)
(*     content; the empty string has label "" and text that is no PEM      *)
(*     block has label "junk";                                             *)
(*   - an identifier (uuid, body id) is a sequence of characters;          *)
(*   - a key pair is numbered; positive numbers are the pairs generated    *)
(*     in this process, negative ones come from stored documents.          *)
(***************************************************************************)
EXTENDS Integers, Sequences, FiniteSets, TLC

\* ------------------------------------------------------------------ bounds

NumCAs == 2
NumCerts == 1
MaxUUIDs == 2
MaxKeys == 2

CAIds == 1..NumCAs
CertIds == 1..NumCerts

\* ------------------------------------------------------- identifiers, time

HexDigits == <<"0","1","2","3","4","5","6","7","8","9","a","b","c","d","e","f">>

DecDigits == <<"0","1","2","3","4","5","6","7","8","9">>

IsHex(c) == \E k \in 1..16 : HexDigits[k] = c

HexVal(c) == (CHOOSE k \in 1..16 : HexDigits[k] = c) - 1

\* The first reading of the identifier source's clock.
ClockBase == 16 + 10

\* The n-th identifier of the time-ordered source: hyphen-delimited hex groups.
TimeOrderedUUID(n) == <<HexDigits[(n \div 16) + 1], "-", HexDigits[(n % 16) + 1]>>

\* strings.Replace(s, "-", "", -1)
StripHyphens(s) == SelectSeq(s, LAMBDA c : c # "-")

RECURSIVE ScanHex(_)
ScanHex(s) == IF s = <<>> THEN 0 ELSE ScanHex(SubSeq(s, 1, Len(s) - 1)) * 16 + HexVal(s[Len(s)])

\* fmt.Sprintf("%d", n) for n >= 0
RECURSIVE SprintfD(_)
SprintfD(n) == IF n < 10 THEN <<DecDigits[n + 1]>> ELSE SprintfD(n \div 10) \o <<DecDigits[(n % 10) + 1]>>

NewSerial(uuid) ==
  LET clean == StripHyphens(uuid)
  IN IF clean = <<>> \/ \E k \in 1..Len(clean) : ~IsHex(clean[k])
     THEN [err |-> "Could not scan UUID to int", serial |-> 0]
     ELSE [err |-> "", serial |-> ScanHex(clean)]

Time(t) == [at |-> t, years |-> 0, months |-> 0, days |-> 0]

AddDate(t, y, m, d) == [t EXCEPT !.years = @ + y, !.months = @ + m, !.days = @ + d]

Now == Time(0)

\* (notBefore, notAfter) arguments the callers pass; the code does not compare them.
Validities == {<<Time(0), Time(1)>>}

\* -------------------------------------------------------- keys, names, PEM

DNFields == {"Country", "Organization", "OrganizationalUnit", "Locality",
             "Province", "StreetAddress", "PostalCode"}

KeyPair(k) == [D |-> k, PublicKey |-> [N |-> k]]

NoKey == KeyPair(0)

NoPublicKey == [N |-> 0]

NoName == [CommonName |-> ""] @@ [f \in DNFields |-> <<>>]

NoCert == [IsCA |-> FALSE, BasicConstraintsValid |-> FALSE, SubjectKeyId |-> <<>>,
           SerialNumber |-> 0, Subject |-> NoName, Issuer |-> NoName,
           NotBefore |-> Time(0), NotAfter |-> Time(0),
           ExtKeyUsage |-> <<>>, KeyUsage |-> {},
           PublicKey |-> NoPublicKey, SignedBy |-> NoPublicKey]

EmptyDNScope == [f \in DNFields |-> ""]

EmptyCertText == [label |-> "", der |-> NoCert]

JunkCertText == [label |-> "junk", der |-> NoCert]

EmptyKeyText == [label |-> "", key |-> NoKey]

JunkKeyText == [label |-> "junk", key |-> NoKey]

EmptyPublicKeyText == [label |-> "", key |-> NoPublicKey]

JunkPublicKeyText == [label |-> "junk", key |-> NoPublicKey]

PemEncodeX509CertificateDER(der) == [label |-> "CERTIFICATE", der |-> der]

PemDecodeX509Certificate(text) ==
  IF text.label = "CERTIFICATE" THEN [err |-> "", nil |-> FALSE, cert |-> text.der]
  ELSE [err |-> "Could not decode certificate", nil |-> TRUE, cert |-> NoCert]

PemEncodeRSAPrivate(key) == [label |-> "RSA PRIVATE KEY", key |-> key]

PemDecodeRSAPrivate(text) ==
  IF text.label = "RSA PRIVATE KEY" THEN [err |-> "", nil |-> FALSE, key |-> text.key]
  ELSE [err |-> "Could not decode rsa private key", nil |-> TRUE, key |-> NoKey]

PemEncodeRSAPublic(pub) == [label |-> "RSA PUBLIC KEY", key |-> pub]

PemDecodeRSAPublic(text) ==
  IF text.label = "RSA PUBLIC KEY" THEN [err |-> "", nil |-> FALSE, key |-> text.key]
  ELSE [err |-> "Could not decode rsa public key", nil |-> TRUE, key |-> NoPublicKey]

\* crypto/x509.CreateCertificate: dereferences parent and the signing key (a nil
\* one is a run-time panic), signs the template with the signing key; fails when
\* the entropy source does.
CreateCertificate(randOk, template, parent, publicKey, signingKey) ==
  IF parent.nil \/ signingKey.nil
  THEN [panic |-> TRUE, err |-> "", der |-> NoCert]
  ELSE IF ~randOk
  THEN [panic |-> FALSE, err |-> "x509: signing failed", der |-> NoCert]
  ELSE [panic |-> FALSE, err |-> "",
        der |-> [template EXCEPT !.Issuer = parent.cert.Subject,
                                 !.PublicKey = publicKey,
                                 !.SignedBy = signingKey.key.PublicKey]]

\* ------------------------------------------------- documents and their input

CADefault ==
  [Scope |-> "pki.io", Version |-> 1, Type |-> "ca-document", Options |-> "",
   Body |-> [Id |-> <<>>, Name |-> "", Certificate |-> EmptyCertText,
             PrivateKey |-> EmptyKeyText, DNScope |-> EmptyDNScope]]

CertificateDefault ==
  [Scope |-> "pki.io", Version |-> 1, Type |-> "certificate-document", Options |-> "",
   Body |-> [Id |-> <<>>, Name |-> "", Certificate |-> EmptyCertText,
             PrivateKey |-> EmptyKeyText]]

CSRDefault ==
  [Scope |-> "pki.io", Version |-> 1, Type |-> "csr-document", Options |-> "",
   Body |-> [Id |-> <<>>, Name |-> "", PublicKey |-> EmptyPublicKeyText]]

TopKeys == {"scope", "version", "type", "options", "body"}

\* required = properties at every level, additionalProperties false
CASchema ==
  [top |-> TopKeys,
   body |-> {"id", "name", "certificate", "private-key", "dn-scope"},
   dnScope |-> {"country", "organization", "organizational-unit", "locality",
                "province", "street-address", "postal-code"}]

CertificateSchema ==
  [top |-> TopKeys, body |-> {"id", "name", "certificate", "private-key"}, dnScope |-> {}]

CSRSchema ==
  [top |-> TopKeys, body |-> {"id", "name", "public-key"}, dnScope |-> {}]

\* A transport-form input: nil, or a text that parses or not, with the keys it
\* holds at each level, the keys whose value has the wrong type, and the typed
\* data json.Unmarshal makes of it.
NilInput(default) ==
  [nil |-> TRUE, wellFormed |-> TRUE, top |-> {}, body |-> {}, dnScope |-> {},
   wrongType |-> {}, data |-> default]

JsonInput(schema, data) ==
  [nil |-> FALSE, wellFormed |-> TRUE, top |-> schema.top, body |-> schema.body,
   dnScope |-> schema.dnScope, wrongType |-> {}, data |-> data]

Malformed(in) == [in EXCEPT !.wellFormed = FALSE]

MissingField(in, k) == [in EXCEPT !.body = @ \ {k}]

UnexpectedField(in, k) == [in EXCEPT !.body = @ \cup {k}]

WrongType(in, k) == [in EXCEPT !.wrongType = @ \cup {k}]

Validate(schema, in) ==
  IF ~in.wellFormed THEN "ParseError"
  ELSE IF in.top # schema.top \/ in.body # schema.body \/ in.dnScope # schema.dnScope
          \/ in.wrongType # {}
  THEN "ValidationError"
  ELSE ""

\* document.Document.FromJson: nil input stands for the default template.
FromJson(schema, default, in) ==
  LET text == IF in.nil THEN JsonInput(schema, default) ELSE in
      v == Validate(schema, text)
  IN [err |-> v, data |-> IF v = "" THEN text.data ELSE default]

StoredRootCert ==
  [NoCert EXCEPT !.IsCA = TRUE, !.SerialNumber = 7,
                 !.Subject = [NoName EXCEPT !.CommonName = "Broken"],
                 !.Issuer = [NoName EXCEPT !.CommonName = "Broken"],
                 !.PublicKey = KeyPair(-1).PublicKey, !.SignedBy = KeyPair(-1).PublicKey]

CABody(name, dn, cert, key) ==
  [CADefault EXCEPT !.Body.Name = name, !.Body.DNScope = dn @@ EmptyDNScope,
                    !.Body.Certificate = cert, !.Body.PrivateKey = key]

RootInput ==
  JsonInput(CASchema, CABody("Root", [Country |-> "UK"], EmptyCertText, EmptyKeyText))

BrokenInput ==
  JsonInput(CASchema,
            CABody("Broken", [Country |-> "DE", Province |-> "Kent"],
                   PemEncodeX509CertificateDER(StoredRootCert), JunkKeyText))

CAInputs ==
  {NilInput(CADefault), RootInput, BrokenInput,
   Malformed(RootInput), MissingField(BrokenInput, "dn-scope"),
   UnexpectedField(BrokenInput, "public-key"), WrongType(RootInput, "name")}

StoredLeafInput ==
  JsonInput(CertificateSchema,
            [CertificateDefault EXCEPT
               !.Body.Name = "leaf0",
               !.Body.Certificate = PemEncodeX509CertificateDER(
                 [StoredRootCert EXCEPT !.IsCA = FALSE,
                                        !.Subject = [NoName EXCEPT !.CommonName = "leaf0"],
                                        !.PublicKey = KeyPair(-3).PublicKey]),
               !.Body.PrivateKey = PemEncodeRSAPrivate(KeyPair(-3))])

CertificateInputs ==
  {NilInput(CertificateDefault), StoredLeafInput, Malformed(StoredLeafInput),
   MissingField(StoredLeafInput, "private-key"),
   UnexpectedField(StoredLeafInput, "dn-scope")}

CSRBody(id, name, pub) ==
  [CSRDefault EXCEPT !.Body.Id = id, !.Body.Name = name, !.Body.PublicKey = pub]

CSRInputs ==
  {NilInput(CSRDefault),
   JsonInput(CSRSchema, CSRBody(<<"r", "1">>, "leaf1", PemEncodeRSAPublic(KeyPair(-2).PublicKey))),
   Malformed(JsonInput(CSRSchema, CSRDefault))}

\* CSR.PublicKey()
CSRPublicKey(csrData) == PemDecodeRSAPublic(csrData.Body.PublicKey)

\* --------------------------------------------------------------- CA (ca.go)

\* The override with the precedence reversed: the child's own value wins.
OverrideIfOwnEmpty(own, fromParent) == IF own = "" THEN fromParent ELSE own

\* One of the seven conditionals of the override block.
OverrideIfPresent(own, fromParent) == IF fromParent # "" THEN fromParent ELSE own

\* The first type switch of GenerateSub: only a *CA parent overrides.
InheritDNScope(own, parentArg) ==
  IF parentArg.kind = "CA"
  THEN [f \in DNFields |-> OverrideIfPresent(own[f], parentArg.ca.Body.DNScope[f])]
  ELSE own

\* pkix.Name with the common name and every non-empty dn-scope field.
BuildSubject(commonName, dn) ==
  [CommonName |-> commonName] @@ [f \in DNFields |-> IF dn[f] # "" THEN <<dn[f]>> ELSE <<>>]

Template(isCA, serial, subject, notBefore, notAfter) ==
  [IsCA |-> isCA, BasicConstraintsValid |-> TRUE, SubjectKeyId |-> <<1, 2, 3>>,
   SerialNumber |-> serial, Subject |-> subject, Issuer |-> NoName,
   NotBefore |-> notBefore, NotAfter |-> notAfter,
   ExtKeyUsage |-> <<"ClientAuth", "ServerAuth">>,
   KeyUsage |-> {"DigitalSignature", "CertSign"},
   PublicKey |-> NoPublicKey, SignedBy |-> NoPublicKey]

Outcome(err, panic, data) == [err |-> err, panic |-> panic, data |-> data]

\* CA.Certificate() / CA.PrivateKey() and the Certificate document's same pair.
DocCertificate(data) == PemDecodeX509Certificate(data.Body.Certificate)

DocPrivateKey(data) == PemDecodeRSAPrivate(data.Body.PrivateKey)

\* The second type switch without its default case: any other parent is taken
\* for no parent.
CAParentMaterialNoDefault(parentArg, template, privateKey) ==
  IF parentArg.kind = "CA"
  THEN LET c == DocCertificate(parentArg.ca)
           k == DocPrivateKey(parentArg.ca)
       IN IF c.err # "" THEN [err |-> "Could not get certificate", parent |-> c, signingKey |-> k]
          ELSE IF k.err # "" THEN [err |-> "Could not get private key", parent |-> c, signingKey |-> k]
          ELSE [err |-> "", parent |-> c, signingKey |-> k]
  ELSE [err |-> "", parent |-> [err |-> "", nil |-> FALSE, cert |-> template],
        signingKey |-> [err |-> "", nil |-> FALSE, key |-> privateKey]]

\* The second type switch signing with the child's own key under a CA parent.
CAParentMaterialOwnKey(parentArg, template, privateKey) ==
  CASE parentArg.kind = "CA" ->
         LET c == DocCertificate(parentArg.ca)
             k == DocPrivateKey(parentArg.ca)
         IN IF c.err # "" THEN [err |-> "Could not get certificate", parent |-> c, signingKey |-> k]
            ELSE IF k.err # "" THEN [err |-> "Could not get private key", parent |-> c, signingKey |-> k]
            ELSE [err |-> "", parent |-> c,
                  signingKey |-> [err |-> "", nil |-> FALSE, key |-> privateKey]]
    [] parentArg.kind = "nil" ->
         [err |-> "", parent |-> [err |-> "", nil |-> FALSE, cert |-> template],
          signingKey |-> [err |-> "", nil |-> FALSE, key |-> privateKey]]
    [] OTHER ->
         [err |-> "Invalid parent type", parent |-> [err |-> "", nil |-> TRUE, cert |-> NoCert],
          signingKey |-> [err |-> "", nil |-> TRUE, key |-> NoKey]]

\* The second type switch of GenerateSub: issuer and signing key.
CAParentMaterial(parentArg, template, privateKey) ==
  CASE parentArg.kind = "CA" ->
         LET c == DocCertificate(parentArg.ca)
             k == DocPrivateKey(parentArg.ca)
         IN IF c.err # "" THEN [err |-> "Could not get certificate", parent |-> c, signingKey |-> k]
            ELSE IF k.err # "" THEN [err |-> "Could not get private key", parent |-> c, signingKey |-> k]
            ELSE [err |-> "", parent |-> c, signingKey |-> k]
    [] parentArg.kind = "nil" ->
         [err |-> "", parent |-> [err |-> "", nil |-> FALSE, cert |-> template],
          signingKey |-> [err |-> "", nil |-> FALSE, key |-> privateKey]]
    [] OTHER ->
         [err |-> "Invalid parent type", parent |-> [err |-> "", nil |-> TRUE, cert |-> NoCert],
          signingKey |-> [err |-> "", nil |-> TRUE, key |-> NoKey]]

\* The final assignments with the private key left out.
CAStoreWithoutKey(data, serial, der, privateKey) ==
  [data EXCEPT !.Body.Id = SprintfD(serial),
               !.Body.Certificate = PemEncodeX509CertificateDER(der)]

\* The three assignments that end a successful GenerateSub.
CAStore(data, serial, der, privateKey) ==
  [data EXCEPT !.Body.Id = SprintfD(serial),
               !.Body.Certificate = PemEncodeX509CertificateDER(der),
               !.Body.PrivateKey = PemEncodeRSAPrivate(privateKey)]

\* The private key stored before the certificate is created.
CAIssueKeyFirst(randOk, data, template, material, privateKey) ==
  LET d2 == [data EXCEPT !.Body.PrivateKey = PemEncodeRSAPrivate(privateKey)]
      cc == CreateCertificate(randOk, template, material.parent, privateKey.PublicKey,
                              material.signingKey)
  IN IF cc.panic THEN Outcome("", TRUE, d2)
     ELSE IF cc.err # "" THEN Outcome("Could not create certificate", FALSE, d2)
     ELSE Outcome("", FALSE,
                  [d2 EXCEPT !.Body.Id = SprintfD(template.SerialNumber),
                             !.Body.Certificate = PemEncodeX509CertificateDER(cc.der)])

\* From CreateCertificate to the return.
CAIssue(randOk, data, template, material, privateKey) ==
  LET cc == CreateCertificate(randOk, template, material.parent, privateKey.PublicKey,
                              material.signingKey)
  IN IF cc.panic THEN Outcome("", TRUE, data)
     ELSE IF cc.err # "" THEN Outcome("Could not create certificate", FALSE, data)
     ELSE Outcome("", FALSE, CAStore(data, template.SerialNumber, cc.der, privateKey))

\* CA.GenerateSub on the receiver's data; the data of the outcome is the
\* receiver's data when the call returns.
CAGenerateSub(data, parentArg, uuid, privateKey, randOk, notBefore, notAfter) ==
  LET d1 == [data EXCEPT !.Body.DNScope = InheritDNScope(@, parentArg)]
      subject == BuildSubject(d1.Body.Name, d1.Body.DNScope)
      s == NewSerial(uuid)
      template == Template(TRUE, s.serial, subject, notBefore, notAfter)
      material == CAParentMaterial(parentArg, template, privateKey)
  IN IF s.err # "" THEN Outcome("Could not create serial", FALSE, d1)
     ELSE IF material.err # "" THEN Outcome(material.err, FALSE, d1)
     ELSE CAIssue(randOk, d1, template, material, privateKey)

\* The end of Sign with the name left at the default.
SignDocumentWithoutName(csrData, der) ==
  LET cert == FromJson(CertificateSchema, CertificateDefault, NilInput(CertificateDefault))
  IN IF cert.err # "" THEN Outcome("Could not create certificate", FALSE, CertificateDefault)
     ELSE Outcome("", FALSE,
                  [cert.data EXCEPT !.Body.Id = csrData.Body.Id,
                                    !.Body.Certificate = PemEncodeX509CertificateDER(der)])

\* The end of a successful Sign: a new default Certificate document filled in.
SignDocument(csrData, der) ==
  LET cert == FromJson(CertificateSchema, CertificateDefault, NilInput(CertificateDefault))
  IN IF cert.err # "" THEN Outcome("Could not create certificate", FALSE, CertificateDefault)
     ELSE Outcome("", FALSE,
                  [cert.data EXCEPT !.Body.Id = csrData.Body.Id,
                                    !.Body.Name = csrData.Body.Name,
                                    !.Body.Certificate = PemEncodeX509CertificateDER(der)])

\* The CA's material as Sign reads it: both decode errors are discarded.
SignMaterial(caData) ==
  [parent |-> [DocCertificate(caData) EXCEPT !.err = ""],
   signingKey |-> [DocPrivateKey(caData) EXCEPT !.err = ""]]

\* CA.Sign: the outcome's data is the returned Certificate document (the
\* default one stands for nil when there is an error or a panic).
CASign(caData, csrData, uuid, randOk) ==
  LET subject == BuildSubject(csrData.Body.Name, caData.Body.DNScope)
      s == NewSerial(uuid)
      template == Template(FALSE, s.serial, subject, Now, AddDate(Now, 5, 5, 5))
      material == SignMaterial(caData)
      csrPublicKey == CSRPublicKey(csrData)
      cc == CreateCertificate(randOk, template, material.parent, csrPublicKey.key,
                              material.signingKey)
  IN IF s.err # "" THEN Outcome("Could not create serial", FALSE, CertificateDefault)
     ELSE IF csrPublicKey.err # ""
     THEN Outcome("Could not get public key from CSR", FALSE, CertificateDefault)
     ELSE IF cc.panic THEN Outcome("", TRUE, CertificateDefault)
     ELSE IF cc.err # "" THEN Outcome("Could not create certificate der", FALSE, CertificateDefault)
     ELSE SignDocument(csrData, cc.der)

\* ------------------------------------------------ Certificate (certificate.go)

FixedSerial == 1234

FixedSubject == [NoName EXCEPT !.Country = <<"Earth">>, !.Organization = <<"Mother Nature">>]

\* The type switch of Generate: only a *Certificate parent is accepted.
CertificateParentMaterial(parentArg, template, privateKey) ==
  CASE parentArg.kind = "Certificate" ->
         LET c == DocCertificate(parentArg.cert)
             k == DocPrivateKey(parentArg.cert)
         IN IF c.err # "" THEN [err |-> "Could not get certificate", parent |-> c, signingKey |-> k]
            ELSE IF k.err # "" THEN [err |-> "Could not get private key", parent |-> c, signingKey |-> k]
            ELSE [err |-> "", parent |-> c, signingKey |-> k]
    [] parentArg.kind = "nil" ->
         [err |-> "", parent |-> [err |-> "", nil |-> FALSE, cert |-> template],
          signingKey |-> [err |-> "", nil |-> FALSE, key |-> privateKey]]
    [] OTHER ->
         [err |-> "Invalid parent type", parent |-> [err |-> "", nil |-> TRUE, cert |-> NoCert],
          signingKey |-> [err |-> "", nil |-> TRUE, key |-> NoKey]]

CertificateStore(data, der, privateKey) ==
  [data EXCEPT !.Body.Certificate = PemEncodeX509CertificateDER(der),
               !.Body.PrivateKey = PemEncodeRSAPrivate(privateKey)]

CertificateGenerate(data, parentArg, privateKey, randOk, notBefore, notAfter) ==
  LET template == Template(FALSE, FixedSerial, FixedSubject, notBefore, notAfter)
      material == CertificateParentMaterial(parentArg, template, privateKey)
      cc == CreateCertificate(randOk, template, material.parent, privateKey.PublicKey,
                              material.signingKey)
  IN IF material.err # "" THEN Outcome(material.err, FALSE, data)
     ELSE IF cc.panic THEN Outcome("", TRUE, data)
     ELSE IF cc.err # "" THEN Outcome("Could not create certificate", FALSE, data)
     ELSE Outcome("", FALSE, CertificateStore(data, cc.der, privateKey))

\* ------------------------------------------------------------ state machine

VARIABLES
  ca,        \* ca[i]: the Data of CA document i
  cert,      \* cert[j]: the Data of Certificate document j
  csr,       \* the Data of the CSR document at hand
  nextUUID,  \* the identifier source's clock
  nextKey,   \* the number of the next key pair GenerateRSAKey makes
  issued,    \* the Certificate document the last call returned, when it was a Sign
  last       \* the last call: what was called, on which document, with which parent, its
             \* error or panic, and whether it returned a document

vars == <<ca, cert, csr, nextUUID, nextKey, issued, last>>

NilParent == [kind |-> "nil", idx |-> 0]

OtherParent == [kind |-> "other", idx |-> 0]

ParentArgs ==
  {NilParent, OtherParent} \cup {[kind |-> "CA", idx |-> i] : i \in CAIds}
    \cup {[kind |-> "Certificate", idx |-> j] : j \in CertIds}

\* The document a parent argument points to.
Deref(p) ==
  [kind |-> p.kind,
   ca |-> IF p.kind = "CA" THEN ca[p.idx] ELSE CADefault,
   cert |-> IF p.kind = "Certificate" THEN cert[p.idx] ELSE CertificateDefault]

Call(op, recv, parent, out, returned) ==
  [op |-> op, recv |-> recv, parent |-> parent, err |-> out.err, panic |-> out.panic,
   returned |-> returned]

\* No Certificate document: what Sign returns beside an error.
NilCertificate == [nil |-> TRUE, Data |-> CertificateDefault]

Init ==
  /\ ca = [i \in CAIds |-> CADefault]
  /\ cert = [j \in CertIds |-> CertificateDefault]
  /\ csr = CSRDefault
  /\ nextUUID = ClockBase
  /\ nextKey = 1
  /\ issued = NilCertificate
  /\ last = Call("init", 0, NilParent, Outcome("", FALSE, CADefault), FALSE)

\* Load assigning the decoded data whether or not FromJson failed.
CALoadAssignsAlways(i, in) ==
  LET r == FromJson(CASchema, CADefault, in)
      out == IF r.err # "" THEN Outcome("Could not load CA JSON", FALSE, r.data)
             ELSE Outcome("", FALSE, r.data)
  IN /\ ca' = [ca EXCEPT ![i] = out.data]
     /\ last' = Call("CA.Load", i, NilParent, out, FALSE)
     /\ issued' = NilCertificate
     /\ UNCHANGED <<cert, csr, nextUUID, nextKey>>

\* CA.Load on document i
CALoad(i, in) ==
  LET r == FromJson(CASchema, CADefault, in)
      out == IF r.err # "" THEN Outcome("Could not load CA JSON", FALSE, ca[i])
             ELSE Outcome("", FALSE, r.data)
  IN /\ ca' = [ca EXCEPT ![i] = out.data]
     /\ last' = Call("CA.Load", i, NilParent, out, FALSE)
     /\ issued' = NilCertificate
     /\ UNCHANGED <<cert, csr, nextUUID, nextKey>>

\* NewCA, its result kept as document i when there is one
NewCA(i, in) ==
  LET r == FromJson(CASchema, CADefault, in)
      out == IF r.err # "" THEN Outcome("Could not create new CA", FALSE, ca[i])
             ELSE Outcome("", FALSE, r.data)
  IN /\ ca' = [ca EXCEPT ![i] = out.data]
     /\ last' = Call("NewCA", i, NilParent, out, r.err = "")
     /\ issued' = NilCertificate
     /\ UNCHANGED <<cert, csr, nextUUID, nextKey>>

GenerateSubCall(op, i, p, randOk, v) ==
  LET privateKey == KeyPair(nextKey)
      out == CAGenerateSub(ca[i], Deref(p), TimeOrderedUUID(nextUUID), privateKey,
                           randOk, v[1], v[2])
  IN /\ nextUUID < ClockBase + MaxUUIDs
     /\ nextKey <= MaxKeys
     /\ ca' = [ca EXCEPT ![i] = out.data]
     /\ nextUUID' = nextUUID + 1
     /\ nextKey' = nextKey + 1
     /\ last' = Call(op, i, p, out, FALSE)
     /\ issued' = NilCertificate
     /\ UNCHANGED <<cert, csr>>

\* CA.GenerateRoot on document i
GenerateRoot(i, randOk, v) == GenerateSubCall("CA.GenerateRoot", i, NilParent, randOk, v)

\* CA.GenerateSub on document i
GenerateSub(i, p, randOk, v) == GenerateSubCall("CA.GenerateSub", i, p, randOk, v)

\* Sign storing the issued serial as the CA's own id, as GenerateSub does.
SignStoresId(i, randOk) ==
  LET out == CASign(ca[i], csr, TimeOrderedUUID(nextUUID), randOk)
      ok == out.err = "" /\ ~out.panic
  IN /\ nextUUID < ClockBase + MaxUUIDs
     /\ nextUUID' = nextUUID + 1
     /\ issued' = IF ok THEN [nil |-> FALSE, Data |-> out.data] ELSE NilCertificate
     /\ last' = Call("CA.Sign", i, NilParent, out, ok)
     /\ ca' = IF ok THEN [ca EXCEPT ![i].Body.Id = SprintfD(NewSerial(TimeOrderedUUID(nextUUID)).serial)]
              ELSE ca
     /\ UNCHANGED <<cert, csr, nextKey>>

\* CA.Sign on document i with the CSR at hand
Sign(i, randOk) ==
  LET out == CASign(ca[i], csr, TimeOrderedUUID(nextUUID), randOk)
      ok == out.err = "" /\ ~out.panic
  IN /\ nextUUID < ClockBase + MaxUUIDs
     /\ nextUUID' = nextUUID + 1
     /\ issued' = IF ok THEN [nil |-> FALSE, Data |-> out.data] ELSE NilCertificate
     /\ last' = Call("CA.Sign", i, NilParent, out, ok)
     /\ UNCHANGED <<ca, cert, csr, nextKey>>

\* Certificate.Load on document j
CertificateLoad(j, in) ==
  LET r == FromJson(CertificateSchema, CertificateDefault, in)
      out == IF r.err # "" THEN Outcome("Could not load Certificate JSON", FALSE, cert[j])
             ELSE Outcome("", FALSE, r.data)
  IN /\ cert' = [cert EXCEPT ![j] = out.data]
     /\ last' = Call("Certificate.Load", j, NilParent, out, FALSE)
     /\ issued' = NilCertificate
     /\ UNCHANGED <<ca, csr, nextUUID, nextKey>>

\* NewCertificate, its result kept as document j when there is one
NewCertificate(j, in) ==
  LET r == FromJson(CertificateSchema, CertificateDefault, in)
      out == IF r.err # "" THEN Outcome("Could not create new Certificate", FALSE, cert[j])
             ELSE Outcome("", FALSE, r.data)
  IN /\ cert' = [cert EXCEPT ![j] = out.data]
     /\ last' = Call("NewCertificate", j, NilParent, out, r.err = "")
     /\ issued' = NilCertificate
     /\ UNCHANGED <<ca, csr, nextUUID, nextKey>>

\* Certificate.Generate on document j
Generate(j, p, randOk, v) ==
  LET privateKey == KeyPair(nextKey)
      out == CertificateGenerate(cert[j], Deref(p), privateKey, randOk, v[1], v[2])
  IN /\ nextKey <= MaxKeys
     /\ nextKey' = nextKey + 1
     /\ cert' = [cert EXCEPT ![j] = out.data]
     /\ last' = Call("Certificate.Generate", j, p, out, FALSE)
     /\ issued' = NilCertificate
     /\ UNCHANGED <<ca, csr, nextUUID>>

\* NewCSR: the requester's document
NewCSR(in) ==
  LET r == FromJson(CSRSchema, CSRDefault, in)
      out == IF r.err # "" THEN Outcome("Could not create new CSR", FALSE, CADefault)
             ELSE Outcome("", FALSE, CADefault)
  IN /\ csr' = IF r.err = "" THEN r.data ELSE csr
     /\ last' = Call("NewCSR", 0, NilParent, out, r.err = "")
     /\ issued' = NilCertificate
     /\ UNCHANGED <<ca, cert, nextUUID, nextKey>>

Next ==
  \/ \E i \in CAIds, in \in CAInputs : NewCA(i, in)
  \/ \E i \in CAIds, in \in CAInputs : CALoad(i, in)
  \/ \E i \in CAIds, randOk \in BOOLEAN, v \in Validities : GenerateRoot(i, randOk, v)
  \/ \E i \in CAIds, p \in ParentArgs, randOk \in BOOLEAN, v \in Validities :
       GenerateSub(i, p, randOk, v)
  \/ \E i \in CAIds, randOk \in BOOLEAN : Sign(i, randOk)
  \/ \E j \in CertIds, in \in CertificateInputs : NewCertificate(j, in)
  \/ \E j \in CertIds, in \in CertificateInputs : CertificateLoad(j, in)
  \/ \E j \in CertIds, p \in ParentArgs, randOk \in BOOLEAN, v \in Validities :
       Generate(j, p, randOk, v)
  \/ \E in \in CSRInputs : NewCSR(in)

Spec == Init /\ [][Next]_vars

\* ------------------------------------------------------------------ claims

CAGenerations == {"CA.GenerateRoot", "CA.GenerateSub"}

Generations == CAGenerations \cup {"Certificate.Generate"}

Undecodable(data) == DocCertificate(data).err # "" \/ DocPrivateKey(data).err # ""

\* C1: whenever CA.GenerateRoot, CA.GenerateSub or Certificate.Generate returns
\* an error, the certificate and private-key fields of the receiver (and of every
\* other document) hold the values they held before the call.
C1_KeyMaterialAllOrNothing ==
  [][(last'.op \in Generations /\ last'.err # "")
       => /\ \A i \in CAIds : /\ ca'[i].Body.Certificate = ca[i].Body.Certificate
                              /\ ca'[i].Body.PrivateKey = ca[i].Body.PrivateKey
          /\ \A j \in CertIds : /\ cert'[j].Body.Certificate = cert[j].Body.Certificate
                                /\ cert'[j].Body.PrivateKey = cert[j].Body.PrivateKey]_vars

\* A generated CA whose re-generation failed at signing and that still holds the
\* earlier key.
C1_Witness ==
  /\ last.op = "CA.GenerateSub"
  /\ last.err = "Could not create certificate"
  /\ ca[last.recv].Body.PrivateKey = PemEncodeRSAPrivate(KeyPair(1))
  /\ nextKey = 3

\* C2: when the parent is a CA whose stored certificate or private key cannot be
\* decoded and whose dn-scope is not empty, GenerateSub returns an error and the
\* child's whole body equals its body before the call.
C2_FailingGenerateSubWritesNothing ==
  [][(/\ last'.op = "CA.GenerateSub"
      /\ last'.parent.kind = "CA"
      /\ Undecodable(ca[last'.parent.idx])
      /\ ca[last'.parent.idx].Body.DNScope # EmptyDNScope)
       => /\ last'.err # ""
          /\ ca'[last'.recv].Body = ca[last'.recv].Body]_vars

SigningKeyErrors == {"Could not get certificate", "Could not get private key"}

\* C3: Sign on a CA whose own certificate or private key cannot be decoded returns
\* an error naming the CA's material and no Certificate document, also for a CSR
\* whose public key is valid.
C3_SignRejectsUndecodableCA ==
  [][(/\ last'.op = "CA.Sign"
      /\ Undecodable(ca[last'.recv])
      /\ CSRPublicKey(csr).err = "")
       => /\ last'.err \in SigningKeyErrors
          /\ ~last'.panic
          /\ issued'.nil]_vars

\* C4: after a successful GenerateSub with a CA parent each of the seven dn-scope
\* fields of the child is the parent's value when that is non-empty and the
\* child's earlier value otherwise; after a successful GenerateRoot all seven are
\* unchanged.
C4_DNScopeOverrideIfPresent ==
  [][/\ (last'.op = "CA.GenerateSub" /\ last'.err = "" /\ last'.parent.kind = "CA")
          => \A f \in DNFields :
               LET parentValue == ca[last'.parent.idx].Body.DNScope[f]
               IN /\ parentValue # "" => ca'[last'.recv].Body.DNScope[f] = parentValue
                  /\ parentValue = ""
                       => ca'[last'.recv].Body.DNScope[f] = ca[last'.recv].Body.DNScope[f]
     /\ (last'.op \in CAGenerations /\ last'.err = "" /\ last'.parent.kind = "nil")
          => ca'[last'.recv].Body.DNScope = ca[last'.recv].Body.DNScope]_vars

\* A child with its own country and province under a generated parent that has
\* only a country: the country is the parent's, the province is kept.
C4_Witness ==
  /\ last.op = "CA.GenerateSub"
  /\ last.err = ""
  /\ last.parent.kind = "CA"
  /\ last.parent.idx # last.recv
  /\ ca[last.parent.idx].Body.Name = "Root"
  /\ ca[last.recv].Body.Name = "Broken"
  /\ ca[last.recv].Body.DNScope["Country"] = "UK"
  /\ ca[last.recv].Body.DNScope["Province"] = "Kent"

\* C5: a Certificate document returned by Sign has the CSR's id and name, a
\* non-empty certificate field holding the issued certificate, and an empty
\* private-key field; and a Sign that ends without error or panic returns one.
C5_IssuedDocument ==
  /\ ~issued.nil
       => /\ last.op = "CA.Sign"
          /\ issued.Data.Body.Id = csr.Body.Id
          /\ issued.Data.Body.Name = csr.Body.Name
          /\ issued.Data.Body.Certificate # EmptyCertText
          /\ DocCertificate(issued.Data).err = ""
          /\ DocCertificate(issued.Data).cert.Subject.CommonName = csr.Body.Name
          /\ issued.Data.Body.PrivateKey = EmptyKeyText
  /\ (last.op = "CA.Sign" /\ last.err = "" /\ ~last.panic) => ~issued.nil

C5_Witness ==
  /\ last.op = "CA.Sign"
  /\ ~issued.nil
  /\ issued.Data.Body.Name = "leaf1"
  /\ ca[last.recv].Body.PrivateKey.label = "RSA PRIVATE KEY"

\* C6 as stated: Sign changes neither the CA nor the CSR, and GenerateSub with a
\* CA parent leaves the parent's body unchanged.
C6_SignAndParentUnchanged ==
  [][/\ last'.op = "CA.Sign" => (ca' = ca /\ csr' = csr)
     /\ (last'.op = "CA.GenerateSub" /\ last'.parent.kind = "CA")
          => ca'[last'.parent.idx].Body = ca[last'.parent.idx].Body]_vars

\* C6 amended: Sign changes neither the CA nor the CSR, and GenerateSub with a CA
\* parent that is another document than the receiver leaves the parent's body
\* unchanged.
C6_SignAndOtherParentUnchanged ==
  [][/\ last'.op = "CA.Sign" => (ca' = ca /\ csr' = csr /\ cert' = cert)
     /\ (last'.op = "CA.GenerateSub" /\ last'.parent.kind = "CA"
           /\ last'.parent.idx # last'.recv)
          => ca'[last'.parent.idx].Body = ca[last'.parent.idx].Body]_vars

\* A Sign that issued a document from a CA that holds generated material.
C6_Witness ==
  /\ last.op = "CA.Sign"
  /\ last.returned
  /\ ca[last.recv].Body.PrivateKey = PemEncodeRSAPrivate(KeyPair(1))
  /\ csr.Body.Name = "leaf1"

StoredKeys ==
  {ca[i].Body.PrivateKey.key : i \in CAIds} \cup {cert[j].Body.PrivateKey.key : j \in CertIds}

\* C8: after a successful GenerateRoot/GenerateSub the stored private key is the
\* pair generated in that call (held by no document before), its public half is
\* the stored certificate's public key; with no parent the certificate is
\* self-issued and signed by that pair; with a CA parent the issuer is the subject
\* of the parent's certificate as stored before the call and the signature is by
\* the parent's stored key, not by the new pair.
C8_FreshKeyAndIssuer ==
  [][(last'.op \in CAGenerations /\ last'.err = "")
       => LET fresh == DocPrivateKey(ca'[last'.recv]).key
              issuedCert == DocCertificate(ca'[last'.recv]).cert
          IN /\ DocPrivateKey(ca'[last'.recv]).err = ""
             /\ DocCertificate(ca'[last'.recv]).err = ""
             /\ fresh \notin StoredKeys
             /\ issuedCert.PublicKey = fresh.PublicKey
             /\ last'.parent.kind = "nil"
                  => /\ issuedCert.Issuer = issuedCert.Subject
                     /\ issuedCert.SignedBy = fresh.PublicKey
             /\ last'.parent.kind = "CA"
                  => /\ issuedCert.Issuer = DocCertificate(ca[last'.parent.idx]).cert.Subject
                     /\ issuedCert.SignedBy = DocPrivateKey(ca[last'.parent.idx]).key.PublicKey
                     /\ issuedCert.SignedBy # fresh.PublicKey]_vars

\* An intermediate CA issued by a generated root.
C8_Witness ==
  /\ last.op = "CA.GenerateSub"
  /\ last.err = ""
  /\ last.parent.kind = "CA"
  /\ last.parent.idx # last.recv
  /\ DocCertificate(ca[last.recv]).cert.Issuer.CommonName = "Root"
  /\ DocCertificate(ca[last.recv]).cert.SignedBy = KeyPair(1).PublicKey
  /\ DocPrivateKey(ca[last.recv]).key = KeyPair(2)

MaterialChanged(i) ==
  \/ ca'[i].Body.Certificate # ca[i].Body.Certificate
  \/ ca'[i].Body.PrivateKey # ca[i].Body.PrivateKey

GeneratedOn(i) == last'.op \in CAGenerations /\ last'.recv = i /\ last'.err = ""

LoadedInto(i) == last'.op \in {"CA.Load", "NewCA"} /\ last'.recv = i /\ last'.err = ""

\* C9 as stated: a CA document's certificate and private-key fields change only
\* by a generation that succeeds on it (so they stay empty until one does), and
\* are both non-empty after one.
C9_OnlyGenerationChangesMaterial ==
  [][\A i \in CAIds :
       /\ MaterialChanged(i) => GeneratedOn(i)
       /\ GeneratedOn(i) => /\ ca'[i].Body.Certificate # EmptyCertText
                            /\ ca'[i].Body.PrivateKey # EmptyKeyText]_vars

\* C9 amended: a CA document's certificate and private-key fields change only by
\* a generation that succeeds on it or by a Load/NewCA that succeeds on it (which
\* stores whatever the loaded body holds), and are both non-empty after a
\* successful generation.
C9_OnlyGenerationOrLoadChangesMaterial ==
  [][\A i \in CAIds :
       /\ MaterialChanged(i) => (GeneratedOn(i) \/ LoadedInto(i))
       /\ GeneratedOn(i) => /\ ca'[i].Body.Certificate # EmptyCertText
                            /\ ca'[i].Body.PrivateKey # EmptyKeyText]_vars

\* A CA document regenerated after a first generation: both fields hold the
\* second call's material.
C9_Witness ==
  /\ last.op = "CA.GenerateRoot"
  /\ last.err = ""
  /\ DocPrivateKey(ca[last.recv]).key = KeyPair(2)
  /\ DocCertificate(ca[last.recv]).cert.PublicKey = KeyPair(2).PublicKey
  /\ \A i \in CAIds : i # last.recv => ca[i].Body.PrivateKey = EmptyKeyText

InvalidInput(schema, in) ==
  /\ ~in.nil
  /\ \/ ~in.wellFormed
     \/ in.top # schema.top
     \/ in.body # schema.body
     \/ in.dnScope # schema.dnScope
     \/ in.wrongType # {}

InvalidCAInputs == {in \in CAInputs : InvalidInput(CASchema, in)}

InvalidCertificateInputs == {in \in CertificateInputs : InvalidInput(CertificateSchema, in)}

\* C10: a Load that fails leaves every document's data as it was, a constructor
\* that fails returns no document, and input that is malformed or violates the
\* schema makes both fail.
C10_LoadAtomicOnFailure ==
  [][/\ (last'.op \in {"CA.Load", "Certificate.Load"} /\ last'.err # "")
          => (ca' = ca /\ cert' = cert)
     /\ (last'.op \in {"NewCA", "NewCertificate"} /\ last'.err # "")
          => (~last'.returned /\ ca' = ca /\ cert' = cert)
     /\ \A in \in InvalidCAInputs :
          (\/ last'.op = "CA.Load" /\ CALoad(last'.recv, in)
           \/ last'.op = "NewCA" /\ NewCA(last'.recv, in))
            => (last'.err # "" /\ ca'[last'.recv] = ca[last'.recv])
     /\ \A in \in InvalidCertificateInputs :
          (\/ last'.op = "Certificate.Load" /\ CertificateLoad(last'.recv, in)
           \/ last'.op = "NewCertificate" /\ NewCertificate(last'.recv, in))
            => (last'.err # "" /\ cert'[last'.recv] = cert[last'.recv])]_vars

\* A populated CA document after a Load that failed.
C10_Witness ==
  /\ last.op = "CA.Load"
  /\ last.err = "Could not load CA JSON"
  /\ ca[last.recv].Body.PrivateKey = PemEncodeRSAPrivate(KeyPair(1))
  /\ ca[last.recv].Body.Name = "Root"

Issuances == Generations \cup {"CA.Sign"}

\* The step is a call that issued a certificate.
Issuing == last'.op \in Issuances /\ last'.err = "" /\ ~last'.panic

\* The certificate the issuing step produced: stored in the receiver by a
\* generation, returned in a new document by Sign.
IssuedCertificate ==
  CASE last'.op \in CAGenerations -> ca'[last'.recv].Body.Certificate
    [] last'.op = "Certificate.Generate" -> cert'[last'.recv].Body.Certificate
    [] OTHER -> issued'.Data.Body.Certificate

\* Certificates that reach a document by Load: made before the process started.
LoadedCertificates ==
  {in.data.Body.Certificate : in \in CAInputs}
    \cup {in.data.Body.Certificate : in \in CertificateInputs}

\* Certificates the documents hold before the step.
HeldCertificates ==
  {ca[i].Body.Certificate : i \in CAIds} \cup {cert[j].Body.Certificate : j \in CertIds}
    \cup {issued.Data.Body.Certificate}

\* Serial numbers of the held certificates that were issued during the process.
IssuedSerials ==
  {t.der.SerialNumber :
     t \in {h \in HeldCertificates \ LoadedCertificates : h.label = "CERTIFICATE"}}

\* C11: any two certificates issued during one process by GenerateRoot,
\* GenerateSub, Sign and Certificate.Generate carry distinct serial numbers: the
\* serial of a certificate a call issues differs from the serial of every
\* certificate issued earlier that a document still holds.
C11_SerialsDistinct ==
  [][Issuing => IssuedCertificate.der.SerialNumber \notin IssuedSerials]_vars

====
